---- MODULE Spec2Model ----
(***************************************************************************)
(* Model of gmail_imap_tool.py: the three click commands delete_folder,     *)
(* delete_empty_folders and print_folders, seen as sequential programs that *)
(* issue calls on one IMAPClient session.  Every collaborator call is one   *)
(* step; it either returns or raises.  The calls issued so far are kept in  *)
(* `log`, the answers given to click.confirm in `prompts`.                  *)
(***************************************************************************)
EXTENDS Integers, Sequences, FiniteSets, TLC

\* ---------------------------------------------------------------- bounds
MaxMsgs == 3
MaxNegChunk == 2
MaxChunk == 3
MaxSpin == 2
MaxFolders == 2
MaxPreviewLen == 260

\* ------------------------------------------------------ program constants
DefaultChunkSize == 1024
PreviewCount == 128

\* "[Gmail]" as a sequence of characters
GmailPrefix == <<"[", "G", "m", "a", "i", "l", "]">>

\* Folder names the server may report (character sequences).
FolderNames ==
    { GmailPrefix \o <<"/", "A">>,
      GmailPrefix,
      <<"[", "G", "m", "a", "i", "l">>,
      <<"E">>,
      <<"N", "[", "G", "m", "a", "i", "l", "]">> }

Commands == {"delete_folder", "delete_empty_folders", "print_folders"}

\* How a collaborator call ends: it returns, raises IMAPClient.Error, or
\* raises some other exception (socket, ssl, ...).
Outcomes == {"ok", "imap_error", "error"}

\* ---------------------------------------------------------------- helpers
Min(a, b) == IF a < b THEN a ELSE b
Max(a, b) == IF a > b THEN a ELSE b

ToSet(s) == { s[i] : i \in 1..Len(s) }

\* Python s[:k]
SliceTo(s, k) ==
    IF k >= 0 THEN SubSeq(s, 1, Min(k, Len(s)))
              ELSE SubSeq(s, 1, Max(Len(s) + k, 0))

\* s[k+1:], one reference lost per chunk
SliceFromMut(s, k) ==
    IF k >= 0 THEN SubSeq(s, Min(k + 1, Len(s)) + 1, Len(s))
              ELSE SubSeq(s, Max(Len(s) + k + 1, 0) + 1, Len(s))

\* Python s[k:]
SliceFrom(s, k) ==
    IF k >= 0 THEN SubSeq(s, Min(k, Len(s)) + 1, Len(s))
              ELSE SubSeq(s, Max(Len(s) + k, 0) + 1, Len(s))

\* Python s.startswith(p)
startswith(s, p) == Len(s) >= Len(p) /\ SubSeq(s, 1, Len(p)) = p

\* message_ids[128:] in place of message_ids[-128:]
preview_ids_mut(ids) ==
    ToSet(SliceTo(ids, PreviewCount) \o SliceFrom(ids, PreviewCount))

\* list(set(message_ids[:128] + message_ids[-128:])), as a set
preview_ids(ids) ==
    ToSet(SliceTo(ids, PreviewCount) \o SliceFrom(ids, 0 - PreviewCount))

\* Strictly ascending lists of message numbers, as IMAP SEARCH returns them.
SearchResults ==
    { s \in UNION { [1..n -> 1..MaxMsgs] : n \in 0..MaxMsgs } :
        \A i \in 1..Len(s) : \A j \in 1..Len(s) : i < j => s[i] < s[j] }

\* Lists of distinct folder names, as list_folders returns them.
FolderLists ==
    { s \in UNION { [1..n -> FolderNames] : n \in 0..MaxFolders } :
        \A i \in 1..Len(s) : \A j \in 1..Len(s) : i # j => s[i] # s[j] }

ChunkSizes == ((0 - MaxNegChunk)..MaxChunk) \cup {DefaultChunkSize}

\* ------------------------------------------------------------------ state
VARIABLES cmd, pc, confirm, chunk_size, folder, message_ids, num_messages,
          current_ids, folders, idx, log, prompts, messages, subjects

vars == <<cmd, pc, confirm, chunk_size, folder, message_ids, num_messages,
          current_ids, folders, idx, log, prompts, messages, subjects>>

\* state of print_emails: the fetched messages not yet printed, and the
\* subjects logged so far
pe == <<messages, subjects>>

\* What a fetched message holds: a Subject header, no Subject header
\* (message["subject"] is None), or no RFC822 data at all.
Contents == {"subject", "none", "missing"}

Entry(op, f, ids, idset, st) ==
    [op |-> op, folder |-> f, ids |-> ids, idset |-> idset, st |-> st]

Issue(op, f, ids, idset, st) == log' = Append(log, Entry(op, f, ids, idset, st))

\* every exception swallowed
AfterCallMut(st, okpc) == okpc

\* An exception that no handler catches ends the command.
AfterCall(st, okpc) == IF st = "ok" THEN okpc ELSE "raised"

\* no handler around select_folder
SelectErrorCaughtMut(st) == FALSE

\* except IMAPClient.Error around select_folder in delete_empty_folders
SelectErrorCaught(st) == st = "imap_error"

\* the answer is ignored
ProceedMut(c, ans) == TRUE

\* `not confirm or click.confirm(...)`
Proceed(c, ans) == ~c \/ ans

\* click.confirm is only evaluated when confirm is set
Answers(c) == IF c THEN BOOLEAN ELSE {FALSE}

Ask(c, q, f, ans) ==
    prompts' = IF c THEN Append(prompts, [q |-> q, folder |-> f, ans |-> ans])
                    ELSE prompts

Init ==
    /\ cmd \in Commands
    /\ pc = "start"
    /\ confirm \in (IF cmd = "print_folders" THEN {TRUE} ELSE BOOLEAN)
    /\ chunk_size \in (IF cmd = "delete_folder" THEN ChunkSizes
                                                ELSE {DefaultChunkSize})
    /\ folder \in (IF cmd = "delete_folder" THEN FolderNames ELSE {<<>>})
    /\ message_ids = <<>>
    /\ num_messages = 0
    /\ current_ids = <<>>
    /\ folders = <<>>
    /\ idx = 0
    /\ log = <<>>
    /\ prompts = <<>>
    /\ messages = {}
    /\ subjects = <<>>

\* ------------------------------------------------------------ imap_connect
\* a rejected login is not noticed
imap_connect_mut ==
    /\ pc = "start"
    /\ \E st \in Outcomes :
         /\ Issue("login", <<>>, <<>>, {}, st)
         /\ pc' = IF cmd = "delete_folder" THEN "df_select"
                  ELSE IF cmd = "delete_empty_folders" THEN "ef_list"
                  ELSE "pf_list"
    /\ UNCHANGED pe
    /\ UNCHANGED <<cmd, confirm, chunk_size, folder, message_ids, num_messages,
                   current_ids, folders, idx, prompts>>

imap_connect ==
    /\ pc = "start"
    /\ \E st \in Outcomes :
         /\ Issue("login", <<>>, <<>>, {}, st)
         /\ pc' = AfterCall(st, IF cmd = "delete_folder" THEN "df_select"
                                ELSE IF cmd = "delete_empty_folders" THEN "ef_list"
                                ELSE "pf_list")
    /\ UNCHANGED pe
    /\ UNCHANGED <<cmd, confirm, chunk_size, folder, message_ids, num_messages,
                   current_ids, folders, idx, prompts>>

\* ----------------------------------------------------------- delete_folder
df_select_folder ==
    /\ pc = "df_select"
    /\ \E st \in Outcomes :
         /\ Issue("select_folder", folder, <<>>, {}, st)
         /\ pc' = AfterCall(st, "df_search")
    /\ UNCHANGED pe
    /\ UNCHANGED <<cmd, confirm, chunk_size, folder, message_ids, num_messages,
                   current_ids, folders, idx, prompts>>

df_search ==
    /\ pc = "df_search"
    /\ \E st \in Outcomes :
         \E res \in (IF st = "ok" THEN SearchResults ELSE {<<>>}) :
           /\ Issue("search", <<>>, res, {}, st)
           /\ pc' = AfterCall(st, "df_preview_q")
           /\ message_ids' = IF st = "ok" THEN res ELSE message_ids
           /\ num_messages' = IF st = "ok" THEN Len(res) ELSE num_messages
    /\ UNCHANGED pe
    /\ UNCHANGED <<cmd, confirm, chunk_size, folder, current_ids, folders, idx,
                   prompts>>

\* `confirm or click.confirm(...)`: the preview is fetched whatever the answer
df_preview_prompt_mut ==
    /\ pc = "df_preview_q"
    /\ \E ans \in Answers(confirm) :
         /\ Ask(confirm, "preview", folder, ans)
         /\ pc' = IF confirm \/ ans THEN "df_fetch" ELSE "df_delete_q"
    /\ UNCHANGED pe
    /\ UNCHANGED <<cmd, confirm, chunk_size, folder, message_ids, num_messages,
                   current_ids, folders, idx, log>>

df_preview_prompt ==
    /\ pc = "df_preview_q"
    /\ \E ans \in Answers(confirm) :
         /\ Ask(confirm, "preview", folder, ans)
         /\ pc' = IF confirm /\ ans THEN "df_fetch" ELSE "df_delete_q"
    /\ UNCHANGED pe
    /\ UNCHANGED <<cmd, confirm, chunk_size, folder, message_ids, num_messages,
                   current_ids, folders, idx, log>>

\* fetch by sequence numbers 1..N instead of the references searched
print_emails_mut ==
    /\ pc = "df_fetch"
    /\ \E st \in Outcomes :
         /\ Issue("fetch", <<>>, <<>>, 1..num_messages, st)
         /\ pc' = AfterCall(st, "pe_loop")
         /\ messages' = IF st = "ok" THEN 1..num_messages ELSE messages
    /\ UNCHANGED subjects
    /\ UNCHANGED <<cmd, confirm, chunk_size, folder, message_ids, num_messages,
                   current_ids, folders, idx, prompts>>

\* print_emails(client, preview_ids): messages = client.fetch(...)
print_emails ==
    /\ pc = "df_fetch"
    /\ \E st \in Outcomes :
         /\ Issue("fetch", <<>>, <<>>, preview_ids(message_ids), st)
         /\ pc' = AfterCall(st, "pe_loop")
         /\ messages' = IF st = "ok" THEN preview_ids(message_ids) ELSE messages
    /\ UNCHANGED subjects
    /\ UNCHANGED <<cmd, confirm, chunk_size, folder, message_ids, num_messages,
                   current_ids, folders, idx, prompts>>

\* message[b"RFC822"] and email.message_from_bytes raise on a message
\* without RFC822 data; nothing in print_emails catches that.
message_raises(c) == c = "missing"

\* for message in messages.values(): parse it and log its subject.  The
\* messages are taken in ascending order, each one's content being read
\* when its turn comes.
pe_message ==
    /\ pc = "pe_loop"
    /\ IF messages = {}
         THEN /\ pc' = "df_delete_q"
              /\ UNCHANGED <<messages, subjects>>
         ELSE LET m == CHOOSE x \in messages : \A y \in messages : x <= y
              IN  \E c \in Contents :
                    IF message_raises(c)
                      THEN /\ pc' = "raised"
                           /\ UNCHANGED <<messages, subjects>>
                      ELSE /\ pc' = "pe_loop"
                           /\ messages' = messages \ {m}
                           /\ subjects' = Append(subjects,
                                                 [id |-> m, subject |-> c])
    /\ UNCHANGED <<cmd, confirm, chunk_size, folder, message_ids, num_messages,
                   current_ids, folders, idx, log, prompts>>

df_delete_prompt ==
    /\ pc = "df_delete_q"
    /\ \E ans \in Answers(confirm) :
         /\ Ask(confirm, "delete", folder, ans)
         /\ pc' = IF Proceed(confirm, ans) THEN "df_loop" ELSE "df_close"
    /\ UNCHANGED pe
    /\ UNCHANGED <<cmd, confirm, chunk_size, folder, message_ids, num_messages,
                   current_ids, folders, idx, log>>

\* Number of loop iterations started so far.
Iterations == Cardinality({ i \in 1..Len(log) : log[i].op = "set_gmail_labels" })

\* expunge only inside the loop: an empty folder goes straight to close
df_next_chunk_mut ==
    /\ pc = "df_loop"
    /\ Len(message_ids) > 0 => Iterations < MaxMsgs + MaxSpin
    /\ IF Len(message_ids) > 0
         THEN /\ current_ids' = SliceTo(message_ids, chunk_size)
              /\ message_ids' = SliceFrom(message_ids, chunk_size)
              /\ pc' = "df_label"
         ELSE /\ pc' = IF num_messages > 0 THEN "df_expunge" ELSE "df_close"
              /\ UNCHANGED <<current_ids, message_ids>>
    /\ UNCHANGED pe
    /\ UNCHANGED <<cmd, confirm, chunk_size, folder, num_messages, folders, idx,
                   log, prompts>>

\* while len(message_ids) > 0: take the next chunk
df_next_chunk ==
    /\ pc = "df_loop"
    /\ Len(message_ids) > 0 => Iterations < MaxMsgs + MaxSpin
    /\ IF Len(message_ids) > 0
         THEN /\ current_ids' = SliceTo(message_ids, chunk_size)
              /\ message_ids' = SliceFrom(message_ids, chunk_size)
              /\ pc' = "df_label"
         ELSE /\ pc' = "df_expunge"
              /\ UNCHANGED <<current_ids, message_ids>>
    /\ UNCHANGED pe
    /\ UNCHANGED <<cmd, confirm, chunk_size, folder, num_messages, folders, idx,
                   log, prompts>>

\* a failed set_gmail_labels is ignored and the delete still goes out
df_set_gmail_labels_mut ==
    /\ pc = "df_label"
    /\ \E st \in Outcomes :
         /\ Issue("set_gmail_labels", <<>>, current_ids, {}, st)
         /\ pc' = "df_delete"
    /\ UNCHANGED pe
    /\ UNCHANGED <<cmd, confirm, chunk_size, folder, message_ids, num_messages,
                   current_ids, folders, idx, prompts>>

df_set_gmail_labels ==
    /\ pc = "df_label"
    /\ \E st \in Outcomes :
         /\ Issue("set_gmail_labels", <<>>, current_ids, {}, st)
         /\ pc' = AfterCall(st, "df_delete")
    /\ UNCHANGED pe
    /\ UNCHANGED <<cmd, confirm, chunk_size, folder, message_ids, num_messages,
                   current_ids, folders, idx, prompts>>

\* delete_messages(message_ids): the remaining references, not the chunk
df_delete_messages_mut ==
    /\ pc = "df_delete"
    /\ \E st \in Outcomes :
         /\ Issue("delete_messages", <<>>, message_ids, {}, st)
         /\ pc' = AfterCall(st, "df_loop")
    /\ UNCHANGED pe
    /\ UNCHANGED <<cmd, confirm, chunk_size, folder, message_ids, num_messages,
                   current_ids, folders, idx, prompts>>

df_delete_messages ==
    /\ pc = "df_delete"
    /\ \E st \in Outcomes :
         /\ Issue("delete_messages", <<>>, current_ids, {}, st)
         /\ pc' = AfterCall(st, "df_loop")
    /\ UNCHANGED pe
    /\ UNCHANGED <<cmd, confirm, chunk_size, folder, message_ids, num_messages,
                   current_ids, folders, idx, prompts>>

df_expunge ==
    /\ pc = "df_expunge"
    /\ \E st \in Outcomes :
         /\ Issue("expunge", <<>>, <<>>, {}, st)
         /\ pc' = AfterCall(st, "df_close")
    /\ UNCHANGED pe
    /\ UNCHANGED <<cmd, confirm, chunk_size, folder, message_ids, num_messages,
                   current_ids, folders, idx, prompts>>

df_close_folder ==
    /\ pc = "df_close"
    /\ \E st \in Outcomes :
         /\ Issue("close_folder", <<>>, <<>>, {}, st)
         /\ pc' = AfterCall(st, "df_logout")
    /\ UNCHANGED pe
    /\ UNCHANGED <<cmd, confirm, chunk_size, folder, message_ids, num_messages,
                   current_ids, folders, idx, prompts>>

df_logout ==
    /\ pc = "df_logout"
    /\ \E st \in Outcomes :
         /\ Issue("logout", <<>>, <<>>, {}, st)
         /\ pc' = AfterCall(st, "done")
    /\ UNCHANGED pe
    /\ UNCHANGED <<cmd, confirm, chunk_size, folder, message_ids, num_messages,
                   current_ids, folders, idx, prompts>>

\* ---------------------------------------------------- delete_empty_folders
\* the length test excludes the bare prefix
gmail_specific_mut(f) == Len(f) > Len(GmailPrefix) /\ startswith(f, GmailPrefix)

\* if len(folder) > 1: if folder.startswith("[Gmail]"): continue
gmail_specific(f) == Len(f) > 1 /\ startswith(f, GmailPrefix)

\* if num_messages > 1: continue
non_empty_mut(n) == n > 1

\* if num_messages > 0: continue
non_empty(n) == n > 0

ef_list_folders ==
    /\ pc = "ef_list"
    /\ \E st \in Outcomes :
         \E res \in (IF st = "ok" THEN FolderLists ELSE {<<>>}) :
           /\ Issue("list_folders", <<>>, <<>>, {}, st)
           /\ folders' = res
           /\ idx' = IF st = "ok" THEN 1 ELSE idx
           /\ pc' = AfterCall(st, "ef_next")
    /\ UNCHANGED pe
    /\ UNCHANGED <<cmd, confirm, chunk_size, folder, message_ids, num_messages,
                   current_ids, prompts>>

\* for raw_folder in ...: folder = str(raw_folder[2]); skip [Gmail] folders.
\* list_folders yields decoded str names, on which str() changes nothing.
ef_next_folder ==
    /\ pc = "ef_next"
    /\ IF idx > Len(folders)
         THEN /\ pc' = "ef_logout"
              /\ UNCHANGED <<folder, idx>>
         ELSE /\ folder' = folders[idx]
              /\ IF gmail_specific(folders[idx])
                   THEN /\ idx' = idx + 1
                        /\ pc' = "ef_next"
                   ELSE /\ idx' = idx
                        /\ pc' = "ef_select"
    /\ UNCHANGED pe
    /\ UNCHANGED <<cmd, confirm, chunk_size, message_ids, num_messages,
                   current_ids, folders, log, prompts>>

ef_select_folder ==
    /\ pc = "ef_select"
    /\ \E st \in Outcomes :
         /\ Issue("select_folder", folder, <<>>, {}, st)
         /\ IF st # "ok" /\ SelectErrorCaught(st)
              THEN /\ idx' = idx + 1
                   /\ pc' = "ef_next"
              ELSE /\ idx' = idx
                   /\ pc' = AfterCall(st, "ef_search")
    /\ UNCHANGED pe
    /\ UNCHANGED <<cmd, confirm, chunk_size, folder, message_ids, num_messages,
                   current_ids, folders, prompts>>

\* the folder is left selected: close_folder is skipped
ef_search_mut ==
    /\ pc = "ef_search"
    /\ \E st \in Outcomes :
         \E res \in (IF st = "ok" THEN SearchResults ELSE {<<>>}) :
           /\ Issue("search", <<>>, res, {}, st)
           /\ pc' = AfterCall(st, "ef_check")
           /\ message_ids' = IF st = "ok" THEN res ELSE message_ids
           /\ num_messages' = IF st = "ok" THEN Len(res) ELSE num_messages
    /\ UNCHANGED pe
    /\ UNCHANGED <<cmd, confirm, chunk_size, folder, current_ids, folders, idx,
                   prompts>>

ef_search ==
    /\ pc = "ef_search"
    /\ \E st \in Outcomes :
         \E res \in (IF st = "ok" THEN SearchResults ELSE {<<>>}) :
           /\ Issue("search", <<>>, res, {}, st)
           /\ pc' = AfterCall(st, "ef_close")
           /\ message_ids' = IF st = "ok" THEN res ELSE message_ids
           /\ num_messages' = IF st = "ok" THEN Len(res) ELSE num_messages
    /\ UNCHANGED pe
    /\ UNCHANGED <<cmd, confirm, chunk_size, folder, current_ids, folders, idx,
                   prompts>>

ef_close_folder ==
    /\ pc = "ef_close"
    /\ \E st \in Outcomes :
         /\ Issue("close_folder", <<>>, <<>>, {}, st)
         /\ pc' = AfterCall(st, "ef_check")
    /\ UNCHANGED pe
    /\ UNCHANGED <<cmd, confirm, chunk_size, folder, message_ids, num_messages,
                   current_ids, folders, idx, prompts>>

\* if num_messages > 0: continue; then the confirmation of the folder delete
ef_check_empty ==
    /\ pc = "ef_check"
    /\ IF non_empty(num_messages)
         THEN /\ idx' = idx + 1
              /\ pc' = "ef_next"
              /\ UNCHANGED prompts
         ELSE \E ans \in Answers(confirm) :
                /\ Ask(confirm, "delete_empty", folder, ans)
                /\ IF Proceed(confirm, ans)
                     THEN /\ idx' = idx
                          /\ pc' = "ef_delete"
                     ELSE /\ idx' = idx + 1
                          /\ pc' = "ef_next"
    /\ UNCHANGED pe
    /\ UNCHANGED <<cmd, confirm, chunk_size, folder, message_ids, num_messages,
                   current_ids, folders, log>>

ef_delete_folder ==
    /\ pc = "ef_delete"
    /\ \E st \in Outcomes :
         /\ Issue("delete_folder", folder, <<>>, {}, st)
         /\ pc' = AfterCall(st, "ef_next")
         /\ idx' = IF st = "ok" THEN idx + 1 ELSE idx
    /\ UNCHANGED pe
    /\ UNCHANGED <<cmd, confirm, chunk_size, folder, message_ids, num_messages,
                   current_ids, folders, prompts>>

ef_logout ==
    /\ pc = "ef_logout"
    /\ \E st \in Outcomes :
         /\ Issue("logout", <<>>, <<>>, {}, st)
         /\ pc' = AfterCall(st, "done")
    /\ UNCHANGED pe
    /\ UNCHANGED <<cmd, confirm, chunk_size, folder, message_ids, num_messages,
                   current_ids, folders, idx, prompts>>

\* ----------------------------------------------------------- print_folders
\* after listing, the folders are walked as delete_empty_folders walks them
pf_list_folders_mut ==
    /\ pc = "pf_list"
    /\ \E st \in Outcomes :
         \E res \in (IF st = "ok" THEN FolderLists ELSE {<<>>}) :
           /\ Issue("list_folders", <<>>, <<>>, {}, st)
           /\ folders' = res
           /\ idx' = 1
           /\ pc' = AfterCall(st, "ef_next")
    /\ UNCHANGED pe
    /\ UNCHANGED <<cmd, confirm, chunk_size, folder, message_ids, num_messages,
                   current_ids, prompts>>

pf_list_folders ==
    /\ pc = "pf_list"
    /\ \E st \in Outcomes :
         \E res \in (IF st = "ok" THEN FolderLists ELSE {<<>>}) :
           /\ Issue("list_folders", <<>>, <<>>, {}, st)
           /\ folders' = res
           /\ pc' = AfterCall(st, "pf_logout")
    /\ UNCHANGED pe
    /\ UNCHANGED <<cmd, confirm, chunk_size, folder, message_ids, num_messages,
                   current_ids, idx, prompts>>

pf_logout ==
    /\ pc = "pf_logout"
    /\ \E st \in Outcomes :
         /\ Issue("logout", <<>>, <<>>, {}, st)
         /\ pc' = AfterCall(st, "done")
    /\ UNCHANGED pe
    /\ UNCHANGED <<cmd, confirm, chunk_size, folder, message_ids, num_messages,
                   current_ids, folders, idx, prompts>>

Next ==
    \/ imap_connect
    \/ df_select_folder
    \/ df_search
    \/ df_preview_prompt
    \/ print_emails
    \/ pe_message
    \/ df_delete_prompt
    \/ df_next_chunk
    \/ df_set_gmail_labels
    \/ df_delete_messages
    \/ df_expunge
    \/ df_close_folder
    \/ df_logout
    \/ ef_list_folders
    \/ ef_next_folder
    \/ ef_select_folder
    \/ ef_search
    \/ ef_close_folder
    \/ ef_check_empty
    \/ ef_delete_folder
    \/ ef_logout
    \/ pf_list_folders
    \/ pf_logout

Spec == Init /\ [][Next]_vars
\* ------------------------------------------- preview on long search results
Range(a, n) == [i \in 1..n |-> a + i - 1]

\* delete_folder just after login, select_folder and search have returned.
InitPreview ==
    /\ cmd = "delete_folder"
    /\ pc = "df_preview_q"
    /\ confirm \in BOOLEAN
    /\ chunk_size = DefaultChunkSize
    /\ folder = <<"E">>
    /\ \E n \in 0..MaxPreviewLen : message_ids = Range(1, n)
    /\ num_messages = Len(message_ids)
    /\ current_ids = <<>>
    /\ folders = <<>>
    /\ idx = 0
    /\ log = << Entry("login", <<>>, <<>>, {}, "ok"),
                Entry("select_folder", folder, <<>>, {}, "ok"),
                Entry("search", <<>>, message_ids, {}, "ok") >>
    /\ prompts = <<>>
    /\ messages = {}
    /\ subjects = <<>>

NextPreview ==
    \/ df_preview_prompt
    \/ print_emails

SpecPreview == InitPreview /\ [][NextPreview]_vars

\* ------------------------------------------------- observations of a run
Ops(o) == { i \in 1..Len(log) : log[i].op = o }

Issued(o) == Ops(o) # {}

Terminated == pc \in {"done", "raised"}

SearchOk == \E i \in Ops("search") : log[i].st = "ok"

\* the result of the (single) search of delete_folder
Found == log[CHOOSE i \in Ops("search") : log[i].st = "ok"].ids

IdsOf(o) ==
    LET sel == SelectSeq(log, LAMBDA e : e.op = o)
    IN  [k \in 1..Len(sel) |-> sel[k].ids]

LabelChunks == IdsOf("set_gmail_labels")

DeleteChunks == IdsOf("delete_messages")

RECURSIVE Flatten(_)
Flatten(ss) == IF ss = <<>> THEN <<>> ELSE Head(ss) \o Flatten(Tail(ss))

IsPrefix(a, b) == Len(a) <= Len(b) /\ a = SubSeq(b, 1, Len(a))

Ceil(n, c) == (n + c - 1) \div c

LoopFinished == pc = "df_expunge" \/ Issued("expunge")

BeginsWithGmail(name) ==
    /\ Len(name) >= Len(GmailPrefix)
    /\ \A i \in 1..Len(GmailPrefix) : name[i] = GmailPrefix[i]

Answered(q, f, a) ==
    \E i \in 1..Len(prompts) :
        prompts[i].q = q /\ prompts[i].folder = f /\ prompts[i].ans = a

\* folder of the latest select_folder issued before call i
SelectBefore(i) ==
    LET js == { j \in Ops("select_folder") : j < i }
    IN  CHOOSE j \in js : \A m \in js : m <= j

\* ------------------------------------------------------------------ claims

\* C1: in delete_folder with chunk size C >= 1 and a search result of N
\* references, the chunks handed to set_gmail_labels and delete_messages
\* each have at most C references, all but the last exactly C; put end to
\* end they are a prefix of the search result while the loop runs, and once
\* the loop has finished there are ceil(N/C) of them, the same chunks were
\* deleted as were labeled, and end to end they equal the search result.
C1_Chunking ==
    (cmd = "delete_folder" /\ chunk_size >= 1 /\ SearchOk) =>
        LET R == Found
            L == LabelChunks
            D == DeleteChunks
        IN  /\ \A k \in 1..Len(L) :
                  /\ Len(L[k]) <= chunk_size
                  /\ (k < Len(L) => Len(L[k]) = chunk_size)
            /\ Len(L) <= Ceil(Len(R), chunk_size)
            /\ IsPrefix(Flatten(L), R)
            /\ IsPrefix(D, L)
            /\ Len(L) - Len(D) <= 1
            /\ LoopFinished =>
                  /\ Len(L) = Ceil(Len(R), chunk_size)
                  /\ Flatten(L) = R
                  /\ D = L

C1_Witness ==
    /\ cmd = "delete_folder"
    /\ pc = "done"
    /\ chunk_size = 2
    /\ SearchOk
    /\ Len(Found) = 3
    /\ Len(DeleteChunks) = 2

\* C2: delete_empty_folders never issues delete_folder for a folder whose
\* search, made right after selecting it, returned one or more references.
C2_NeverDeleteNonEmpty ==
    cmd = "delete_empty_folders" =>
        \A i \in Ops("select_folder") :
            ( /\ i < Len(log)
              /\ log[i + 1].op = "search"
              /\ log[i + 1].st = "ok"
              /\ Len(log[i + 1].ids) > 0 )
            => \A j \in Ops("delete_folder") : log[j].folder # log[i].folder

C2_Witness ==
    /\ cmd = "delete_empty_folders"
    /\ pc = "done"
    /\ Issued("delete_folder")
    /\ \E i \in Ops("search") : Len(log[i].ids) > 0

\* C3: delete_empty_folders issues no select_folder and no delete_folder
\* naming a folder that begins with "[Gmail]", and every search and
\* close_folder it issues follows the select of a folder that does not.
C3_ReservedUntouched ==
    cmd = "delete_empty_folders" =>
        /\ \A i \in Ops("select_folder") \cup Ops("delete_folder") :
              ~BeginsWithGmail(log[i].folder)
        /\ \A i \in Ops("search") \cup Ops("close_folder") :
              /\ \E j \in Ops("select_folder") : j < i
              /\ log[SelectBefore(i)].st = "ok"
              /\ ~BeginsWithGmail(log[SelectBefore(i)].folder)

C3_Witness ==
    /\ cmd = "delete_empty_folders"
    /\ pc = "done"
    /\ \E k \in 1..Len(folders) : folders[k] = GmailPrefix
    /\ Issued("delete_folder")

\* C4 (as claimed): every delete_folder run in which select and search
\* succeeded ends with close_folder issued and logout as the last call.
C4_AlwaysCloseAndLogout ==
    (cmd = "delete_folder" /\ Terminated /\ SearchOk) =>
        /\ Issued("close_folder")
        /\ log[Len(log)].op = "logout"
        /\ \E i \in Ops("close_folder") : i < Len(log)

\* C5 (as claimed): in every command, once login succeeded, logout has been
\* issued when the command terminates, also when a later call raised.
C5_LogoutOnTermination ==
    (Terminated /\ Len(log) > 0 /\ log[1].st = "ok") => Issued("logout")

\* C6: in delete_folder every delete_messages directly follows a returned
\* set_gmail_labels on the same chunk, every set_gmail_labels that returned
\* is directly followed by that delete, a new chunk starts only after the
\* previous delete returned, the chunks follow the search result's order,
\* at most one expunge is issued, after every label and delete, and when
\* deletion proceeds close_folder directly follows the one expunge.
C6_CallOrder ==
    cmd = "delete_folder" =>
        /\ \A i \in Ops("delete_messages") :
              /\ i > 1
              /\ log[i - 1].op = "set_gmail_labels"
              /\ log[i - 1].st = "ok"
              /\ log[i - 1].ids = log[i].ids
        /\ \A i \in Ops("set_gmail_labels") :
              /\ i < Len(log) => log[i + 1].op = "delete_messages"
              /\ log[i - 1].op \in {"search", "fetch", "delete_messages"}
              /\ log[i - 1].st = "ok"
        /\ \A i \in Ops("delete_messages") :
              i < Len(log) => log[i + 1].op \in {"set_gmail_labels", "expunge"}
        /\ SearchOk => IsPrefix(Flatten(LabelChunks), Found)
        /\ Cardinality(Ops("expunge")) <= 1
        /\ \A i \in Ops("expunge") :
              /\ \A j \in Ops("set_gmail_labels") \cup Ops("delete_messages") : j < i
              /\ log[i - 1].op \in {"search", "fetch", "delete_messages"}
        /\ \A i \in Ops("close_folder") :
              (~confirm \/ Answered("delete", folder, TRUE)) =>
                  /\ log[i - 1].op = "expunge"
                  /\ log[i - 1].st = "ok"

\* three references, chunk size one, confirm disabled
C6_Witness ==
    /\ cmd = "delete_folder"
    /\ pc = "done"
    /\ ~confirm
    /\ chunk_size = 1
    /\ [k \in 1..Len(log) |-> log[k].op] =
          << "login", "select_folder", "search",
             "set_gmail_labels", "delete_messages",
             "set_gmail_labels", "delete_messages",
             "set_gmail_labels", "delete_messages",
             "expunge", "close_folder", "logout" >>

\* C7: with confirm enabled, delete_folder issues set_gmail_labels,
\* delete_messages or expunge only after a yes to the delete prompt, and
\* delete_empty_folders issues delete_folder only for a folder whose prompt
\* was answered yes; with confirm disabled nothing is asked, a completed
\* delete_folder has expunged, and a completed delete_empty_folders has
\* issued delete_folder for every folder whose search returned nothing.
C7_ConfirmGate ==
    /\ (cmd = "delete_folder" /\ confirm) =>
          ((Issued("set_gmail_labels") \/ Issued("delete_messages")
              \/ Issued("expunge"))
            => Answered("delete", folder, TRUE))
    /\ (cmd = "delete_empty_folders" /\ confirm) =>
          \A i \in Ops("delete_folder") :
              Answered("delete_empty", log[i].folder, TRUE)
    /\ ~confirm => prompts = <<>>
    /\ (cmd = "delete_folder" /\ ~confirm /\ pc = "done") => Issued("expunge")
    /\ (cmd = "delete_empty_folders" /\ ~confirm /\ pc = "done") =>
          \A i \in Ops("search") :
              Len(log[i].ids) = 0 =>
                  \E j \in Ops("delete_folder") :
                      log[j].folder = log[SelectBefore(i)].folder

C7_Witness ==
    /\ cmd = "delete_empty_folders"
    /\ confirm
    /\ pc = "done"
    /\ Cardinality(Ops("delete_folder")) = 1
    /\ \E i \in 1..Len(prompts) : ~prompts[i].ans
    /\ \E i \in 1..Len(prompts) : prompts[i].ans

\* C8: when select_folder raises in delete_folder the command ends there:
\* it is the last call, and no search, fetch, set_gmail_labels,
\* delete_messages or expunge is ever issued.
C8_SelectFailureAborts ==
    cmd = "delete_folder" =>
        \A i \in Ops("select_folder") :
            log[i].st # "ok" =>
                /\ i = Len(log)
                /\ pc = "raised"
                /\ ~Issued("search")
                /\ ~Issued("fetch")
                /\ ~Issued("set_gmail_labels")
                /\ ~Issued("delete_messages")
                /\ ~Issued("expunge")

C8_Witness ==
    /\ cmd = "delete_folder"
    /\ pc = "raised"
    /\ Len(log) = 2
    /\ log[2].op = "select_folder"
    /\ log[2].st = "imap_error"

\* folders[1..k] without the "[Gmail]" ones
Eligible(k) == SelectSeq(SubSeq(folders, 1, k), LAMBDA f : ~BeginsWithGmail(f))

SelectedFolders ==
    LET sel == SelectSeq(log, LAMBDA e : e.op = "select_folder")
    IN  [k \in 1..Len(sel) |-> sel[k].folder]

\* C9: in delete_empty_folders an IMAPClient.Error from select_folder does
\* not end the command: the next call, if any, is the select of a later
\* folder or the logout, no delete_folder is issued for that folder, the
\* folders selected so far are exactly the non-"[Gmail]" folders passed so
\* far in list order, and a completed run ends with its only logout.
C9_SelectErrorSkipsFolder ==
    cmd = "delete_empty_folders" =>
        /\ \A i \in Ops("select_folder") :
              log[i].st = "imap_error" =>
                  /\ i < Len(log) => log[i + 1].op \in {"select_folder", "logout"}
                  /\ i = Len(log) => pc \in {"ef_next", "ef_select", "ef_logout"}
                  /\ \A j \in Ops("delete_folder") : log[j].folder # log[i].folder
        /\ pc \in {"ef_next", "ef_select", "ef_logout", "done"} =>
              SelectedFolders = Eligible(idx - 1)
        /\ pc \in {"ef_search", "ef_close", "ef_check", "ef_delete"} =>
              SelectedFolders = Eligible(idx)
        /\ pc = "done" =>
              /\ log[Len(log)].op = "logout"
              /\ Cardinality(Ops("logout")) = 1

C9_Witness ==
    /\ cmd = "delete_empty_folders"
    /\ pc = "done"
    /\ \E i \in Ops("select_folder") :
          /\ log[i].st = "imap_error"
          /\ \E j \in Ops("delete_folder") : j > i

\* C10: the references passed to fetch are the first 128 and the last 128
\* of the search result R: min(N, 256) distinct references, all of R when
\* N <= 256, none when N = 0, and none outside R.
C10_PreviewSample ==
    cmd = "delete_folder" =>
        \A i \in Ops("fetch") :
            LET R == Found
                N == Len(R)
                S == log[i].idset
            IN  /\ S = { R[k] : k \in { m \in 1..N : m <= 128 \/ m > N - 128 } }
                /\ Cardinality(S) = Min(N, 256)
                /\ N <= 256 => S = ToSet(R)
                /\ N = 0 => S = {}
                /\ S \subseteq ToSet(R)

C10_Witness ==
    /\ cmd = "delete_folder"
    /\ \E i \in Ops("fetch") :
          /\ Len(Found) > 256
          /\ Cardinality(log[i].idset) = 256
          /\ ~(129 \in log[i].idset)

\* the messages whose subject has been logged
Reported == { subjects[k].id : k \in 1..Len(subjects) }

\* C11 (as claimed): the content of one previewed message never ends the
\* command: delete_folder is only ever ended by a collaborator call that
\* raised, and once the preview is over every fetched message has had a
\* subject reported.
C11_ContentErrorContained ==
    cmd = "delete_folder" =>
        \A i \in Ops("fetch") :
            log[i].st = "ok" =>
                /\ pc = "raised" => log[Len(log)].st # "ok"
                /\ pc \notin {"pe_loop", "raised"} => Reported = log[i].idset

\* C12: after a successful login print_folders issues nothing but
\* list_folders and then logout, so no call that changes a folder or a
\* message is ever issued.
C12_PrintFoldersReadOnly ==
    cmd = "print_folders" =>
        /\ \A i \in 1..Len(log) :
              log[i].op = (IF i = 1 THEN "login"
                           ELSE IF i = 2 THEN "list_folders" ELSE "logout")
        /\ Len(log) <= 3
        /\ \A i \in 1..Len(log) : i < Len(log) => log[i].st = "ok"

C12_Witness ==
    /\ cmd = "print_folders"
    /\ pc = "done"
    /\ Len(folders) = 2
    /\ Len(log) = 3

\* C13: when set_gmail_labels or delete_messages raises on chunk k of
\* delete_folder, that call is the last one: the command has ended, chunks
\* 1..k-1 were labeled and deleted, chunk k was labeled and, when the
\* delete is what raised, handed to delete_messages but by no returned
\* delete, no later chunk was started and no expunge was issued.
C13_FailureMidway ==
    cmd = "delete_folder" =>
        \A i \in Ops("set_gmail_labels") \cup Ops("delete_messages") :
            log[i].st # "ok" =>
                LET k == Len(LabelChunks)
                    okDeletes == { j \in Ops("delete_messages") : log[j].st = "ok" }
                IN  /\ i = Len(log)
                    /\ pc = "raised"
                    /\ ~Issued("expunge")
                    /\ ~Issued("close_folder")
                    /\ Cardinality(okDeletes) = k - 1
                    /\ \A j \in 1..(k - 1) : DeleteChunks[j] = LabelChunks[j]
                    /\ \A j \in Ops("set_gmail_labels") : j < i => log[j].st = "ok"
                    /\ IF log[i].op = "delete_messages"
                         THEN Len(DeleteChunks) = k /\ DeleteChunks[k] = LabelChunks[k]
                         ELSE Len(DeleteChunks) = k - 1

C13_Witness ==
    /\ cmd = "delete_folder"
    /\ pc = "raised"
    /\ chunk_size = 1
    /\ log[Len(log)].op = "delete_messages"
    /\ Len(LabelChunks) = 2
    /\ Len(Found) = 3

\* the calls issued after position i, by name
OpsAfter(i) == [k \in 1..(Len(log) - i) |-> log[i + k].op]

DeletionProceeds ==
    /\ pc \notin {"df_select", "df_search", "df_preview_q", "df_fetch",
                  "pe_loop", "df_delete_q"}
    /\ ~confirm \/ Answered("delete", folder, TRUE)

\* C14: when deletion proceeds in delete_folder on a search result of zero
\* references, no set_gmail_labels and no delete_messages is issued, the
\* calls after the search are expunge, close_folder, logout in that order,
\* each issued once, and the command ends normally unless one of these
\* calls itself raises.
C14_EmptyFolderStillExpunges ==
    (cmd = "delete_folder" /\ SearchOk /\ Len(Found) = 0) =>
        /\ ~Issued("set_gmail_labels")
        /\ ~Issued("delete_messages")
        /\ DeletionProceeds =>
              LET i == CHOOSE j \in 1..Len(log) :
                           log[j].op \in {"search", "fetch"}
                           /\ \A m \in Ops("search") \cup Ops("fetch") : m <= j
                  tail == OpsAfter(i)
              IN  /\ IsPrefix(tail, <<"expunge", "close_folder", "logout">>)
                  /\ pc = "done" => Len(tail) = 3
                  /\ pc = "df_close" => Len(tail) = 1
                  /\ pc = "raised" => log[Len(log)].st # "ok"
                  /\ pc \in {"df_loop", "df_expunge", "df_close", "df_logout",
                             "done", "raised"}

C14_Witness ==
    /\ cmd = "delete_folder"
    /\ pc = "done"
    /\ SearchOk
    /\ Len(Found) = 0
    /\ chunk_size = 0
    /\ Cardinality(Ops("expunge")) = 1

\* C15: delete_folder selects once and searches once; every fetch,
\* set_gmail_labels and delete_messages comes after that search returned,
\* names only references the search returned, and has no select_folder or
\* close_folder between the search and itself.  delete_empty_folders issues
\* no fetch, set_gmail_labels or delete_messages and passes no reference to
\* any call.
C15_ReferencesOfCurrentSelection ==
    /\ cmd = "delete_folder" =>
          /\ Cardinality(Ops("select_folder")) <= 1
          /\ Cardinality(Ops("search")) <= 1
          /\ \A i \in Ops("fetch") \cup Ops("set_gmail_labels")
                        \cup Ops("delete_messages") :
                /\ SearchOk
                /\ \A j \in Ops("select_folder") \cup Ops("search") : j < i
                /\ \A j \in Ops("close_folder") : j > i
                /\ ToSet(log[i].ids) \subseteq ToSet(Found)
                /\ log[i].idset \subseteq ToSet(Found)
    /\ cmd = "delete_empty_folders" =>
          /\ ~Issued("fetch")
          /\ ~Issued("set_gmail_labels")
          /\ ~Issued("delete_messages")
          /\ \A i \in 1..Len(log) :
                /\ log[i].idset = {}
                /\ log[i].op # "search" => log[i].ids = <<>>

C15_Witness ==
    /\ cmd = "delete_folder"
    /\ pc = "done"
    /\ SearchOk
    /\ Found = <<2, 3>>
    /\ \E i \in Ops("fetch") : log[i].idset = {2, 3}
    /\ Len(DeleteChunks) = 2

\* a folder is selected just before call j
SelectedBefore(j) ==
    \E i \in Ops("select_folder") :
        /\ i < j
        /\ log[i].st = "ok"
        /\ \A m \in Ops("close_folder") : ~(i < m /\ m < j)

\* C16: in delete_empty_folders a select and search that returned are
\* directly followed by close_folder, and no select_folder, delete_folder
\* or logout is issued while a folder is selected; each select has at most
\* one close_folder before the next select.
C16_CloseBeforeAnythingElse ==
    cmd = "delete_empty_folders" =>
        /\ \A i \in Ops("search") :
              (log[i].st = "ok" /\ i < Len(log)) => log[i + 1].op = "close_folder"
        /\ \A j \in Ops("select_folder") \cup Ops("delete_folder")
                        \cup Ops("logout") : ~SelectedBefore(j)
        /\ \A m \in Ops("close_folder") :
              /\ SelectedBefore(m)
              /\ log[m - 1].op = "search"
        /\ \A j \in Ops("delete_folder") :
              /\ log[j - 1].op = "close_folder"
              /\ log[j - 1].st = "ok"
              /\ log[SelectBefore(j)].folder = log[j].folder

C16_Witness ==
    /\ cmd = "delete_empty_folders"
    /\ pc = "done"
    /\ Cardinality(Ops("close_folder")) = 2
    /\ Cardinality(Ops("delete_folder")) = 1

\* C17 (as claimed): every iteration of the delete_folder chunk loop leaves
\* strictly fewer references to go, for every chunk size the option accepts.
C17_LoopProgress ==
    [][(pc = "df_loop" /\ pc' = "df_label")
          => Len(message_ids') < Len(message_ids)]_vars

\* C18: delete_folder issues fetch at most once, only with confirm enabled
\* and a yes to the preview prompt, and before any set_gmail_labels or
\* delete_messages; from the search up to the first chunk the references
\* to delete are the search result, whether or not the preview was taken.
C18_PreviewIsReadOnly ==
    cmd = "delete_folder" =>
        /\ Cardinality(Ops("fetch")) <= 1
        /\ Issued("fetch") => (confirm /\ Answered("preview", folder, TRUE))
        /\ \A i \in Ops("fetch") :
              \A j \in Ops("set_gmail_labels") \cup Ops("delete_messages") : i < j
        /\ (SearchOk /\ ~Issued("set_gmail_labels") /\ pc # "df_label") =>
              /\ message_ids = Found
              /\ num_messages = Len(Found)
        /\ (confirm /\ Answered("preview", folder, FALSE)) => ~Issued("fetch")

C18_Witness ==
    /\ cmd = "delete_folder"
    /\ pc = "df_delete_q"
    /\ Issued("fetch")
    /\ Len(subjects) = 3
    /\ message_ids = <<1, 2, 3>>

\* C19: in every command login is the first call, and when it raises it is
\* the only call: the command has ended and no mailbox operation is issued.
C19_NothingWithoutLogin ==
    /\ \A i \in 1..Len(log) : (log[i].op = "login") <=> (i = 1)
    /\ (Len(log) > 0 /\ log[1].st # "ok") =>
          /\ Len(log) = 1
          /\ pc = "raised"

C19_Witness ==
    /\ cmd = "delete_empty_folders"
    /\ pc = "raised"
    /\ Len(log) = 1
    /\ log[1].op = "login"
    /\ log[1].st = "error"
====
